---- MODULE Spec2Model ----
(***************************************************************************)
(* Model of src/src/rest_api/actions/base_actions.py: the Action base      *)
(* class of the diagnostic client (collector, verifier, extractor, key     *)
(* computation, read-by-identifier and authentication flows) driven by the *)
(* run() template of the module docstring.                                 *)
(*                                                                         *)
(* Python values: None is the record None; a can.Message is a record       *)
(* [id, data] with data a sequence of bytes (1-based here, 0-based in the  *)
(* source, so source offset k is index k+1); a list or bytearray handed    *)
(* around as a value is wrapped as [list |-> <<...>>].                     *)
(* The slice msg[1:] of a message (line 168) is modelled as the message    *)
(* with the same identifier whose data lost its first byte; the Message    *)
(* type itself belongs to the external can package.                        *)
(***************************************************************************)
EXTENDS Integers, Sequences, FiniteSets, TLC

VARIABLES
    my_id,      \* self.my_id, the expected sender id (line 147)
    op,         \* which protected method run() drives: "rbi" or "auth"
    step,       \* number of the exchange in progress (1, or 2 for the key step)
    pc,         \* position of the run
    bus,        \* "open" after can.interface.Bus(...), "closed" after shutdown()
    shutdowns,  \* number of bus.shutdown() calls
    sent,       \* request frames handed to the generator, in order
    events,     \* order of sends and collect cycles of the run
    polls,      \* frames delivered by bus.recv in the current collect
    rxlog,      \* the frames delivered by bus.recv in the current collect
    flag,       \* local flag of __collect_response
    msg,        \* local msg of __collect_response
    msg_ext,    \* local msg_ext of __collect_response
    response,   \* value returned by __collect_response / _passive_response
    errors,     \* error envelopes built by _to_json_error (never raised)
    extractArgs,\* arguments _data_from_frame was called with
    data,       \* value returned by _data_from_frame (data / seed)
    key,        \* value returned by __algorithm
    data_str,   \* value returned by _list_to_number
    result,     \* what run() produced: "none", "ok" or "fault"
    hist        \* per finished exchange: frames received and whether a frame came back

vars == <<my_id, op, step, pc, bus, shutdowns, sent, events, polls, rxlog, flag,
          msg, msg_ext, response, errors, extractArgs, data, key, data_str,
          result, hist>>

-----------------------------------------------------------------------------
(* Bounds *)

\* longest list handed to _list_to_number on its own
MaxListLen == 2
\* frames one collect may receive before the transport stays silent
MaxPolls == 3
\* longest seed handed to the key computation on its own
MaxSeedLen == 3

-----------------------------------------------------------------------------
(* Program constants *)

READ_BY_ADDRESS == 35
READ_BY_IDENTIFIER == 34
AUTHENTICATION == 41
\* positive-response offset 0x40
POSITIVE == 64
\* First-Frame marker 0x10
FIRST_FRAME == 16
\* exclusive limits 0x20 and 0x30 of the Consecutive-Frame marker
CF_LOW == 32
CF_HIGH == 48
\* handler keys of _data_from_frame: 0x62, 0x63, 0x29
H_READ_BY_IDENTIFIER == 98
H_READ_BY_ADDRESS == 99
H_AUTHENTICATION_SEED == 41
bit_width == 8

None == [none |-> TRUE]
\* a raised IndexError / TypeError standing where a value was expected
Fault == [fault |-> TRUE]
L(s) == [list |-> s]
Frame(i, d) == [id |-> i, data |-> d]

\* s[k:] of the source: the elements from 0-based offset k to the end
RECURSIVE Pow2(_)
Pow2(n) == IF n = 0 THEN 1 ELSE 2 * Pow2(n - 1)

Tail_(s, k) == IF k >= Len(s) THEN <<>> ELSE SubSeq(s, k + 1, Len(s))

\* data[k] of the source; Has(d, k) is false where Python raises IndexError
Has(d, k) == k + 1 <= Len(d)
At(d, k) == d[k + 1]

-----------------------------------------------------------------------------
(* The environment: what bus.recv(3) may deliver *)

\* values of my_id: 0xFA and 0xFB
TesterIds == {250, 251}

\* arbitration ids 0x12FA and 0x12FB: the low byte (id % 0x100) of the first is
\* tester 0xFA's id, that of the second is tester 0xFB's
GoodIds == {4858}
BadIds == {4859}

Payloads ==
    { <<6, 105, 1, 170, 187>>,        \* simple positive seed response (0x69)
      <<4, 41, 1, 170>>,              \* simple frame carrying 0x29 at offset 1
      <<3, 127, 41>>,                 \* negative response
      <<5, 98, 241, 144, 170, 187>>,  \* simple positive read-by-identifier response (0x62)
      <<98, 98, 241, 144, 170, 187>>, \* the same with first byte 0x62
      <<16, 9, 105, 1, 170>>,         \* First-Frame of a seed response
      <<16, 9, 98, 241, 144>>,        \* First-Frame of a read-by-identifier response
      <<16, 16, 0, 105, 98>>,         \* First-Frame whose length byte is 0x10
      <<33, 187, 204>>,               \* Consecutive-Frame 0x21
      <<34, 221>>,                    \* Consecutive-Frame 0x22
      <<32, 1>>,                      \* marker 0x20, outside the open interval
      <<48, 0, 0>>,                   \* marker 0x30, outside the open interval
      <<5>>,                          \* one-byte frame
      <<>> }                          \* empty frame

Frames ==
    { Frame(i, d) : i \in GoodIds, d \in Payloads }
      \cup { Frame(i, d) : i \in BadIds,
                           d \in { <<6, 105, 1, 170, 187>>,
                                   <<5, 98, 241, 144, 170, 187>>,
                                   <<16, 9, 105, 1, 170>>,
                                   <<5>> } }

-----------------------------------------------------------------------------
(* Pure functions of the source *)

Sid(o) == IF o = "rbi" THEN READ_BY_IDENTIFIER ELSE AUTHENTICATION

\* __verify_frame with the service code always looked up at offset 1
VerifyFrameSimpleOffset(m, me, sid) ==
    IF m.id % 256 # me THEN "false"
    ELSE IF ~Has(m.data, 1) THEN "fault"
    ELSE IF At(m.data, 1) # sid + POSITIVE THEN "false" ELSE "true"

\* __verify_frame: "true", "false", or "fault" where an index is out of range
VerifyFrame(m, me, sid) ==
    IF m.id % 256 # me THEN "false"
    ELSE IF ~Has(m.data, 0) THEN "fault"
    ELSE IF At(m.data, 0) # FIRST_FRAME
         THEN IF ~Has(m.data, 1) THEN "fault"
              ELSE IF At(m.data, 1) # sid + POSITIVE THEN "false" ELSE "true"
         ELSE IF ~Has(m.data, 2) THEN "fault"
              ELSE IF At(m.data, 2) # sid + POSITIVE THEN "false" ELSE "true"

\* msg[1:] of line 168
SliceMsg(m) == Frame(m.id, Tail_(m.data, 1))

\* line 171 appending the whole payload, marker byte included
AppendCFWhole(ext, m) == Frame(ext.id, ext.data \o m.data)

\* msg_ext.data += msg.data[1:] of line 171
AppendCF(ext, m) == Frame(ext.id, ext.data \o Tail_(m.data, 1))

\* the test of line 170 accepting the sequence number 1 only
IsConsecutiveFirstOnly(b) == b = CF_LOW + 1

\* the test of line 170 on the first byte
IsConsecutive(b) == CF_LOW < b /\ b < CF_HIGH

\* ReadByIdentifier._data_from_frame starting one byte early
ReadByIdentifierDataOff3(m) == L(Tail_(m.data, 3))

ReadByIdentifierData(m) == L(Tail_(m.data, 4))

\* ReadByAddress._data_from_frame counting only the low nibble of the length byte
ReadByAddressDataLowNibble(m) ==
    IF ~Has(m.data, 2) THEN Fault
    ELSE LET addr_siz_len == At(m.data, 2)
             byte_start_data == addr_siz_len % 16
         IN  L(Tail_(m.data, 3 + byte_start_data))

ReadByAddressData(m) ==
    IF ~Has(m.data, 2) THEN Fault
    ELSE LET addr_siz_len == At(m.data, 2)
             byte_start_data == (addr_siz_len % 16) + (addr_siz_len \div 16)
         IN  L(Tail_(m.data, 3 + byte_start_data))

AuthenticationSeedData(m) == L(Tail_(m.data, 3))

\* Action._data_from_frame falling back to the seed handler for an unknown code
DataFromFrameDefault(m) ==
    IF m = None THEN L(<<1, 2, 3, 4, 5>>)
    ELSE IF ~Has(m.data, 0) THEN Fault
    ELSE LET off == IF At(m.data, 0) # FIRST_FRAME THEN 1 ELSE 2
         IN  IF ~Has(m.data, off) THEN Fault
             ELSE LET code == At(m.data, off)
                  IN  CASE code = H_READ_BY_IDENTIFIER -> ReadByIdentifierData(m)
                        [] code = H_READ_BY_ADDRESS -> ReadByAddressData(m)
                        [] OTHER -> AuthenticationSeedData(m)

\* Action._data_from_frame: a wrapped list, None, or Fault
DataFromFrame(m) ==
    IF m = None THEN L(<<1, 2, 3, 4, 5>>)
    ELSE IF ~Has(m.data, 0) THEN Fault
    ELSE LET off == IF At(m.data, 0) # FIRST_FRAME THEN 1 ELSE 2
         IN  IF ~Has(m.data, off) THEN Fault
             ELSE LET code == At(m.data, off)
                  IN  CASE code = H_READ_BY_IDENTIFIER -> ReadByIdentifierData(m)
                        [] code = H_READ_BY_ADDRESS -> ReadByAddressData(m)
                        [] code = H_AUTHENTICATION_SEED -> AuthenticationSeedData(m)
                        [] OTHER -> None

\* the loop body of __algorithm appending the seed value as it came
AlgorithmByteNoWrap(value) == value

\* one iteration of the loop of __algorithm
AlgorithmByte(value) ==
    LET v == IF value < 0 THEN Pow2(bit_width) + value ELSE value
    IN  v % Pow2(bit_width)

Algorithm(seed) == [i \in 1..Len(seed) |-> AlgorithmByte(seed[i])]

HexDigit == <<"0", "1", "2", "3", "4", "5", "6", "7", "8", "9",
              "a", "b", "c", "d", "e", "f">>

\* hex(item)[2:] for item >= 0
RECURSIVE Hex(_)
Hex(n) == IF n < 16 THEN <<HexDigit[n + 1]>>
          ELSE Hex(n \div 16) \o <<HexDigit[(n % 16) + 1]>>

\* _list_to_number without the leading "0" of lines 300-301
RECURSIVE ListToNumberNoPad(_)
ListToNumberNoPad(list) ==
    IF list = <<>> THEN <<>>
    ELSE Hex(Head(list)) \o ListToNumberNoPad(Tail(list))

\* _list_to_number, the string as a sequence of characters
RECURSIVE ListToNumber(_)
ListToNumber(list) ==
    IF list = <<>> THEN <<>>
    ELSE (IF Head(list) <= 15 THEN <<"0">> ELSE <<>>)
         \o Hex(Head(list)) \o ListToNumber(Tail(list))

-----------------------------------------------------------------------------
(* The run: Init is the state after Action.__init__ *)

Init ==
    /\ my_id \in TesterIds
    /\ op \in {"rbi", "auth"}
    /\ step = 1
    /\ pc = "send"
    /\ bus = "open"
    /\ shutdowns = 0
    /\ sent = <<>>
    /\ events = <<>>
    /\ polls = 0
    /\ rxlog = <<>>
    /\ flag = FALSE
    /\ msg = None
    /\ msg_ext = None
    /\ response = None
    /\ errors = <<>>
    /\ extractArgs = <<>>
    /\ data = None
    /\ key = None
    /\ data_str = None
    /\ result = "none"
    /\ hist = <<>>

\* what bus.recv(3) may return now: a frame, or None on a timeout
RecvChoices(n) == IF n < MaxPolls THEN Frames \cup {None} ELSE {None}

\* an uncaught TypeError / IndexError leaves run(): no except clause of the
\* template matches it, so bus.shutdown() is not reached
Raise ==
    /\ pc' = "done"
    /\ result' = "fault"

\* the request sent, and the handshake going on to the key without collecting
SendRequestNoCollect ==
    /\ pc = "send"
    /\ sent' = Append(sent, [kind |-> IF op = "rbi" THEN "read_data_by_identifier"
                                                     ELSE "authentication_seed",
                             key |-> None])
    /\ events' = Append(events, "send")
    /\ pc' = IF op = "auth" THEN "sendkey" ELSE "collect"
    /\ UNCHANGED <<my_id, op, step, bus, shutdowns, polls, rxlog, flag, msg, msg_ext,
                   response, errors, extractArgs, data, key, data_str, result, hist>>

\* generate.read_data_by_identifier (line 257) / generate.authentication_seed (line 280)
SendRequest ==
    /\ pc = "send"
    /\ sent' = Append(sent, [kind |-> IF op = "rbi" THEN "read_data_by_identifier"
                                                     ELSE "authentication_seed",
                             key |-> None])
    /\ events' = Append(events, "send")
    /\ pc' = "collect"
    /\ UNCHANGED <<my_id, op, step, bus, shutdowns, polls, rxlog, flag, msg, msg_ext,
                   response, errors, extractArgs, data, key, data_str, result, hist>>

\* __collect_response, lines 161-163
CollectStart ==
    /\ pc = "collect"
    /\ \E f \in RecvChoices(0) :
          /\ msg' = f
          /\ polls' = IF f = None THEN 0 ELSE 1
          /\ rxlog' = IF f = None THEN <<>> ELSE <<f>>
    /\ flag' = FALSE
    /\ msg_ext' = None
    /\ pc' = "loop"
    /\ UNCHANGED <<my_id, op, step, bus, shutdowns, sent, events, response, errors,
                   extractArgs, data, key, data_str, result, hist>>

\* the receive of line 175 that ends an iteration
RecvNext ==
    \E f \in RecvChoices(polls) :
          /\ msg' = f
          /\ polls' = IF f = None THEN polls ELSE polls + 1
          /\ rxlog' = IF f = None THEN rxlog ELSE Append(rxlog, f)

\* lines 166-168 keeping the running buffer when a First-Frame arrives in
\* segmented mode
LoopFirstFrameKeep ==
    /\ pc = "loop"
    /\ msg # None
    /\ Has(msg.data, 0)
    /\ At(msg.data, 0) = FIRST_FRAME
    /\ flag' = TRUE
    /\ msg_ext' = IF flag THEN Frame(msg_ext.id, msg_ext.data \o Tail_(msg.data, 1))
                          ELSE Frame(msg.id, Tail_(msg.data, 1))
    /\ RecvNext
    /\ UNCHANGED <<my_id, op, step, pc, bus, shutdowns, sent, events, response, errors,
                   extractArgs, data, key, data_str, result, hist>>

\* lines 166-168 and 175: a First-Frame
LoopFirstFrame ==
    /\ pc = "loop"
    /\ msg # None
    /\ Has(msg.data, 0)
    /\ At(msg.data, 0) = FIRST_FRAME
    /\ flag' = TRUE
    /\ msg_ext' = SliceMsg(msg)
    /\ RecvNext
    /\ UNCHANGED <<my_id, op, step, pc, bus, shutdowns, sent, events, response, errors,
                   extractArgs, data, key, data_str, result, hist>>

\* lines 170-171 and 175: a Consecutive-Frame in segmented mode
LoopConsecutive ==
    /\ pc = "loop"
    /\ msg # None
    /\ Has(msg.data, 0)
    /\ At(msg.data, 0) # FIRST_FRAME
    /\ flag
    /\ IsConsecutive(At(msg.data, 0))
    /\ msg_ext' = AppendCF(msg_ext, msg)
    /\ RecvNext
    /\ UNCHANGED <<my_id, op, step, pc, bus, shutdowns, sent, events, flag, response,
                   errors, extractArgs, data, key, data_str, result, hist>>

\* lines 173-175 with the loop going on to the receive of line 175 before it ends
LoopBreakAfterRecv ==
    /\ pc = "loop"
    /\ msg # None
    /\ Has(msg.data, 0)
    /\ At(msg.data, 0) # FIRST_FRAME
    /\ ~(flag /\ IsConsecutive(At(msg.data, 0)))
    /\ pc' = "gate"
    /\ RecvNext
    /\ UNCHANGED <<my_id, op, step, bus, shutdowns, sent, events, flag,
                   msg_ext, response, errors, extractArgs, data, key, data_str,
                   result, hist>>

\* lines 173-174: any other frame breaks out of the loop
LoopBreak ==
    /\ pc = "loop"
    /\ msg # None
    /\ Has(msg.data, 0)
    /\ At(msg.data, 0) # FIRST_FRAME
    /\ ~(flag /\ IsConsecutive(At(msg.data, 0)))
    /\ pc' = "gate"
    /\ UNCHANGED <<my_id, op, step, bus, shutdowns, sent, events, polls, rxlog, flag,
                   msg, msg_ext, response, errors, extractArgs, data, key, data_str,
                   result, hist>>

\* line 164 polling again after a receive that returned None
LoopEndPollAgain ==
    /\ pc = "loop"
    /\ msg = None
    /\ RecvNext
    /\ UNCHANGED <<my_id, op, step, pc, bus, shutdowns, sent, events, flag, msg_ext,
                   response, errors, extractArgs, data, key, data_str, result, hist>>

\* line 164: the loop ends when recv returned None
LoopEnd ==
    /\ pc = "loop"
    /\ msg = None
    /\ pc' = "gate"
    /\ UNCHANGED <<my_id, op, step, bus, shutdowns, sent, events, polls, rxlog, flag,
                   msg, msg_ext, response, errors, extractArgs, data, key, data_str,
                   result, hist>>

\* line 166 on a frame without payload: msg.data[0] raises IndexError
LoopFault ==
    /\ pc = "loop"
    /\ msg # None
    /\ ~Has(msg.data, 0)
    /\ Raise
    /\ UNCHANGED <<my_id, op, step, bus, shutdowns, sent, events, polls, rxlog, flag,
                   msg, msg_ext, response, errors, extractArgs, data, key, data_str,
                   hist>>

\* lines 176-177 handing over the last frame received whenever there is one
CandidateLastFrame == IF msg # None THEN msg ELSE msg_ext

\* lines 176-177: the candidate handed to the verifier
Candidate == IF flag THEN msg_ext ELSE msg

\* lines 178-180 returning the candidate without asking the verifier
CollectResultNoVerify(cand, me, sid) == cand

\* lines 178-180: the frame, None, or Fault when the verifier raises
CollectResult(cand, me, sid) ==
    IF cand = None THEN None
    ELSE LET v == VerifyFrame(cand, me, sid)
         IN  IF v = "fault" THEN Fault
             ELSE IF v = "true" THEN cand ELSE None

\* lines 176-180, and the return into _passive_response (line 215)
Gate ==
    /\ pc = "gate"
    /\ CollectResult(Candidate, my_id, Sid(op)) # Fault
    /\ msg' = Candidate
    /\ response' = CollectResult(Candidate, my_id, Sid(op))
    /\ events' = Append(events, "collect")
    /\ hist' = Append(hist, [got |-> Len(rxlog), ok |-> response' # None])
    /\ pc' = "passive"
    /\ UNCHANGED <<my_id, op, step, bus, shutdowns, sent, polls, rxlog, flag, msg_ext,
                   errors, extractArgs, data, key, data_str, result>>

\* lines 196 / 199 on a candidate that is too short: IndexError
GateFault ==
    /\ pc = "gate"
    /\ CollectResult(Candidate, my_id, Sid(op)) = Fault
    /\ msg' = Candidate
    /\ Raise
    /\ UNCHANGED <<my_id, op, step, bus, shutdowns, sent, events, polls, rxlog, flag,
                   msg_ext, response, errors, extractArgs, data, key, data_str, hist>>

\* _passive_response, lines 216-220: the envelope is built and dropped, the
\* raise of line 219 is commented out, and the response (None included) is returned
PassiveResponse ==
    /\ pc = "passive"
    /\ errors' = IF response = None THEN Append(errors, "interrupted") ELSE errors
    /\ pc' = IF op = "auth" /\ step = 2 THEN "finish" ELSE "extract"
    /\ UNCHANGED <<my_id, op, step, bus, shutdowns, sent, events, polls, rxlog, flag,
                   msg, msg_ext, response, extractArgs, data, key, data_str, result,
                   hist>>

\* line 259 / line 282: data = self._data_from_frame(frame_response)
Extract ==
    /\ pc = "extract"
    /\ extractArgs' = Append(extractArgs, response)
    /\ IF DataFromFrame(response) = Fault
       THEN Raise /\ UNCHANGED data
       ELSE /\ data' = DataFromFrame(response)
            /\ pc' = IF op = "rbi" THEN "format" ELSE "algorithm"
            /\ UNCHANGED result
    /\ UNCHANGED <<my_id, op, step, bus, shutdowns, sent, events, polls, rxlog, flag,
                   msg, msg_ext, response, errors, key, data_str, hist>>

\* lines 260-261: data_str = self._list_to_number(data); iterating None raises
Format ==
    /\ pc = "format"
    /\ IF data = None
       THEN Raise /\ UNCHANGED data_str
       ELSE /\ data_str' = L(ListToNumber(data.list))
            /\ pc' = "finish"
            /\ UNCHANGED result
    /\ UNCHANGED <<my_id, op, step, bus, shutdowns, sent, events, polls, rxlog, flag,
                   msg, msg_ext, response, errors, extractArgs, data, key, hist>>

\* line 283: key = self.__algorithm(seed)
ComputeKey ==
    /\ pc = "algorithm"
    /\ data # None
    /\ key' = L(Algorithm(data.list))
    /\ pc' = "sendkey"
    /\ UNCHANGED <<my_id, op, step, bus, shutdowns, sent, events, polls, rxlog, flag,
                   msg, msg_ext, response, errors, extractArgs, data, data_str, result,
                   hist>>

\* line 269 with seed None: "for value in seed" raises TypeError
ComputeKeyFault ==
    /\ pc = "algorithm"
    /\ data = None
    /\ Raise
    /\ UNCHANGED <<my_id, op, step, bus, shutdowns, sent, events, polls, rxlog, flag,
                   msg, msg_ext, response, errors, extractArgs, data, key, data_str,
                   hist>>

\* line 284: self.generate.authentication_key(id, key), then line 285
SendKey ==
    /\ pc = "sendkey"
    /\ sent' = Append(sent, [kind |-> "authentication_key", key |-> key])
    /\ events' = Append(events, "send")
    /\ step' = 2
    /\ pc' = "collect"
    /\ UNCHANGED <<my_id, op, bus, shutdowns, polls, rxlog, flag, msg, msg_ext,
                   response, errors, extractArgs, data, key, data_str, result, hist>>

\* run() template, lines 64-69: _to_json, bus.shutdown(), return
Finish ==
    /\ pc = "finish"
    /\ bus' = "closed"
    /\ shutdowns' = shutdowns + 1
    /\ result' = "ok"
    /\ pc' = "done"
    /\ UNCHANGED <<my_id, op, step, sent, events, polls, rxlog, flag, msg, msg_ext,
                   response, errors, extractArgs, data, key, data_str, hist>>

Next ==
    \/ SendRequest
    \/ CollectStart
    \/ LoopFirstFrame
    \/ LoopConsecutive
    \/ LoopBreak
    \/ LoopEnd
    \/ LoopFault
    \/ Gate
    \/ GateFault
    \/ PassiveResponse
    \/ Extract
    \/ Format
    \/ ComputeKey
    \/ ComputeKeyFault
    \/ SendKey
    \/ Finish

Spec == Init /\ [][Next]_vars

\* the run is sequential code that keeps executing, and bus.recv(3) returns
\* after at most its timeout
SpecLive == Init /\ [][Next]_vars /\ WF_vars(Next)

TypeOK ==
    /\ pc \in {"send", "collect", "loop", "gate", "passive", "extract", "format",
               "algorithm", "sendkey", "finish", "done"}
    /\ bus \in {"open", "closed"}
    /\ result \in {"none", "ok", "fault"}
    /\ polls \in 0..MaxPolls
    /\ polls = Len(rxlog)

-----------------------------------------------------------------------------
(* The key computation on its own, over signed 8-bit seeds *)

SignedBytes == {-128, -1, 0, 1, 127}

SeedInputs == UNION { [1..n -> SignedBytes] : n \in 0..MaxSeedLen }

InitAlg ==
    /\ my_id \in TesterIds
    /\ op = "auth"
    /\ step = 1
    /\ pc = "algorithm"
    /\ bus = "open"
    /\ shutdowns = 0
    /\ sent = <<>>
    /\ events = <<>>
    /\ polls = 0
    /\ rxlog = <<>>
    /\ flag = FALSE
    /\ msg = None
    /\ msg_ext = None
    /\ response = None
    /\ errors = <<>>
    /\ extractArgs = <<>>
    /\ data \in { L(s) : s \in SeedInputs }
    /\ key = None
    /\ data_str = None
    /\ result = "none"
    /\ hist = <<>>

NextAlg == ComputeKey

SpecAlg == InitAlg /\ [][NextAlg]_vars

-----------------------------------------------------------------------------
(* Properties *)

KeySent == \E i \in 1..Len(sent) : sent[i].kind = "authentication_key"

\* C1: in the handshake, when the seed-request step obtains no valid response
\* (timeout or rejected frame), no key-submission frame is sent afterwards.
C1_NoKeyAfterSeedFailure ==
    (op = "auth" /\ Len(hist) >= 1 /\ ~hist[1].ok) => ~KeySent

\* C2: in the handshake, whenever the seed response was accepted by the
\* verifier, the extractor yields that frame's payload from offset 3 to the
\* end (never "no data") and the submitted key is computed from those bytes.
C2_SeedExtractedFromAccepted ==
    (op = "auth" /\ Len(extractArgs) >= 1 /\ extractArgs[1] # None
        /\ pc \in {"algorithm", "sendkey", "collect", "loop", "gate", "passive",
                   "finish", "done"})
    => /\ data = L(SubSeq(extractArgs[1].data, 4, Len(extractArgs[1].data)))
       /\ KeySent => sent[2].key = L(Algorithm(data.list))

\* C3: when the collector received no frame within the timeout window, the
\* finished action has surfaced exactly one "interrupted" error envelope to
\* its caller (not zero, and not one per failed step).
C3_OneInterruptedEnvelope ==
    (pc = "done" /\ \E i \in 1..Len(hist) : hist[i].got = 0)
    => (result = "interrupted" /\ Len(errors) = 1)

\* C4: _data_from_frame is only ever invoked with a frame the collector
\* returned, never with an absent frame.
C4_NoExtractionOnAbsentFrame ==
    \A i \in 1..Len(extractArgs) : extractArgs[i] # None

RECURSIVE PostMarkerBytes(_)
PostMarkerBytes(log) ==
    IF log = <<>> THEN <<>>
    ELSE SubSeq(Head(log).data, 2, Len(Head(log).data)) \o PostMarkerBytes(Tail(log))

FirstFrameThenConsecutives(log) ==
    /\ Len(log) >= 1
    /\ Len(log[1].data) >= 1
    /\ log[1].data[1] = 16
    /\ \A i \in 2..Len(log) :
          /\ Len(log[i].data) >= 1
          /\ log[i].data[1] \in 33..47

\* C5: a First-Frame followed by n >= 0 Consecutive-Frames and then a poll
\* timeout is reassembled into the concatenation, in arrival order, of the
\* post-marker bytes of all these frames.
C5_Reassembly ==
    (pc = "gate" /\ msg = None /\ FirstFrameThenConsecutives(rxlog))
    => (flag /\ msg_ext # None /\ msg_ext.data = PostMarkerBytes(rxlog))

C5_Witness ==
    /\ pc = "gate"
    /\ msg = None
    /\ Len(rxlog) = 3
    /\ FirstFrameThenConsecutives(rxlog)
    /\ msg_ext.data = <<9, 105, 1, 170, 187, 204, 221>>

\* C6: collect(sid) returns a frame only if the verifier accepts that same
\* candidate for sid and the session's sender id; otherwise (no frame at all,
\* sender mismatch, wrong service code) it returns nothing.
C6_CollectorGate ==
    pc = "passive"
    => /\ response # None
          => (msg # None /\ response = msg
              /\ VerifyFrame(msg, my_id, Sid(op)) = "true")
       /\ (msg = None \/ VerifyFrame(msg, my_id, Sid(op)) # "true")
          => response = None
       /\ rxlog = <<>> => response = None

C6_Witness ==
    /\ pc = "passive"
    /\ flag
    /\ response # None
    /\ Len(rxlog) >= 2

\* C7: verification succeeds exactly when identifier mod 0x100 is the expected
\* sender id and the byte at the service-code offset (2 if the first payload
\* byte is 0x10, else 1) equals sid + 0x40.
C7_VerifyExactly ==
    pc = "passive"
    => ((response # None)
        <=> /\ msg # None
            /\ msg.id % 256 = my_id
            /\ Len(msg.data) >= 1
            /\ IF msg.data[1] = 16
               THEN Len(msg.data) >= 3
                    /\ msg.data[3] = (IF op = "rbi" THEN 34 ELSE 41) + 64
               ELSE Len(msg.data) >= 2
                    /\ msg.data[2] = (IF op = "rbi" THEN 34 ELSE 41) + 64)

C7_Witness ==
    /\ pc = "passive"
    /\ response # None
    /\ response.data[1] = 16
    /\ response.data[2] # 105
    /\ response.data[3] = 105

ExpectedEvents ==
    IF op = "auth" THEN <<"send", "collect", "send", "collect">>
                   ELSE <<"send", "collect">>

ExpectedRequests ==
    IF op = "auth" THEN <<"authentication_seed", "authentication_key">>
                   ELSE <<"read_data_by_identifier">>

\* C8: sends and collect cycles alternate strictly, starting with a send, so
\* at most one request is outstanding; the handshake's events are, in order,
\* send seed-request, collect, send key-submission, collect.
C8_Sequential ==
    /\ Len(events) <= Len(ExpectedEvents)
    /\ events = SubSeq(ExpectedEvents, 1, Len(events))
    /\ Len(sent) <= Len(ExpectedRequests)
    /\ \A i \in 1..Len(sent) : sent[i].kind = ExpectedRequests[i]
    /\ Len(sent) - Len(hist) \in {0, 1}

C8_Witness ==
    /\ op = "auth"
    /\ pc = "done"
    /\ events = <<"send", "collect", "send", "collect">>
    /\ Len(sent) = 2

\* C9: when a run that completed an exchange (response accepted, rejected or
\* missing) is over, the bus has been shut down exactly once.
C9_HandleReleased ==
    (pc = "done" /\ Len(hist) >= 1) => (bus = "closed" /\ shutdowns = 1)

\* C10: the key has the length and order of the seed, every key byte lies in
\* 0..255, and each negative seed byte v maps to v + 256 (-1 to 255).
C10_KeyComputation ==
    (pc = "sendkey" /\ data # None /\ key # None)
    => /\ Len(key.list) = Len(data.list)
       /\ \A i \in 1..Len(data.list) :
             /\ key.list[i] \in 0..255
             /\ data.list[i] < 0 => key.list[i] = data.list[i] + 256
             /\ data.list[i] \in 0..255 => key.list[i] = data.list[i]

C10_Witness ==
    /\ pc = "sendkey"
    /\ data = L(<<-1, 127, -128>>)
    /\ key = L(<<255, 127, 128>>)

-----------------------------------------------------------------------------
(* _list_to_number on its own, over lists of bytes *)

ByteSamples == {0, 1, 9, 10, 15, 16, 17, 160, 171, 255}

ListInputs == UNION { [1..n -> ByteSamples] : n \in 0..MaxListLen }

InitFmt ==
    /\ my_id \in TesterIds
    /\ op = "rbi"
    /\ step = 1
    /\ pc = "format"
    /\ bus = "open"
    /\ shutdowns = 0
    /\ sent = <<>>
    /\ events = <<>>
    /\ polls = 0
    /\ rxlog = <<>>
    /\ flag = FALSE
    /\ msg = None
    /\ msg_ext = None
    /\ response = None
    /\ errors = <<>>
    /\ extractArgs = <<>>
    /\ data \in { L(s) : s \in ListInputs }
    /\ key = None
    /\ data_str = None
    /\ result = "none"
    /\ hist = <<>>

NextFmt == Format

SpecFmt == InitFmt /\ [][NextFmt]_vars

LowercaseHex == <<"0", "1", "2", "3", "4", "5", "6", "7", "8", "9",
                  "a", "b", "c", "d", "e", "f">>

IsLowercaseHex(c) == \E i \in 1..16 : LowercaseHex[i] = c

DigitValue(c) == (CHOOSE i \in 1..16 : LowercaseHex[i] = c) - 1

\* a string of even length read two characters at a time
RECURSIVE DecodePairs(_)
DecodePairs(str) ==
    IF str = <<>> THEN <<>>
    ELSE <<16 * DigitValue(str[1]) + DigitValue(str[2])>>
         \o DecodePairs(SubSeq(str, 3, Len(str)))

\* C11: for every sequence s of bytes, _list_to_number(s) is a string of
\* exactly 2 * length(s) lowercase hex characters that decodes, two characters
\* at a time, back to s.
C11_HexRoundTrip ==
    (pc = "finish" /\ data # None /\ data_str # None)
    => /\ Len(data_str.list) = 2 * Len(data.list)
       /\ \A i \in 1..Len(data_str.list) : IsLowercaseHex(data_str.list[i])
       /\ DecodePairs(data_str.list) = data.list

C11_Witness ==
    /\ pc = "finish"
    /\ data = L(<<10, 255>>)
    /\ data_str = L(<<"0", "a", "f", "f">>)

-----------------------------------------------------------------------------
(* _data_from_frame on its own, over frames of every response code *)

\* first byte (a length, or the marker 0x10), a second and a third byte among
\* the codes 0x62, 0x63, 0x29, 0x69, 0x7F and the length bytes 0x00, 0x14,
\* 0x11, then seven more bytes; and four frames that are too short
ExtractPayloads ==
    { <<a, c, l, 1, 2, 3, 4, 5, 170, 187>> :
          a \in {7, 16}, c \in {98, 99, 41, 105, 127},
          l \in {0, 20, 17, 98, 99, 41} }
      \cup { <<>>, <<7>>, <<7, 99>>, <<16, 9>> }

ExtractInputs == { Frame(i, d) : i \in GoodIds, d \in ExtractPayloads }

InitExtract ==
    /\ my_id \in TesterIds
    /\ op \in {"rbi", "auth"}
    /\ step = 1
    /\ pc = "extract"
    /\ bus = "open"
    /\ shutdowns = 0
    /\ sent = <<>>
    /\ events = <<>>
    /\ polls = 0
    /\ rxlog = <<>>
    /\ flag = FALSE
    /\ msg = None
    /\ msg_ext = None
    /\ response \in ExtractInputs
    /\ errors = <<>>
    /\ extractArgs = <<>>
    /\ data = None
    /\ key = None
    /\ data_str = None
    /\ result = "none"
    /\ hist = <<>>

NextExtract == Extract

SpecExtract == InitExtract /\ [][NextExtract]_vars

\* the frame has a byte at its service-code offset (2 after a first byte 0x10,
\* else 1)
HasServiceCode(f) ==
    /\ f # None
    /\ Len(f.data) >= 2
    /\ f.data[1] = 16 => Len(f.data) >= 3

ServiceCode(f) == IF f.data[1] = 16 THEN f.data[3] ELSE f.data[2]

\* the bytes of d from 0-based offset k to the end, empty when k is past the end
FromOffset(d, k) == [i \in 1..(IF Len(d) > k THEN Len(d) - k ELSE 0) |-> d[k + i]]

\* C12: for a response whose service code is 0x63, extract returns the payload
\* from offset 3 + low + high to the end, low and high being the nibbles of
\* the byte at payload offset 2; with the byte 0x14 the data starts at offset 8.
C12_ReadByAddressOffset ==
    (Len(extractArgs) = 1 /\ HasServiceCode(extractArgs[1])
        /\ Len(extractArgs[1].data) >= 3 /\ ServiceCode(extractArgs[1]) = 99)
    => LET d == extractArgs[1].data
           low == d[3] % 16
           high == d[3] \div 16
       IN  /\ result # "fault"
           /\ data = L(FromOffset(d, 3 + low + high))
           /\ d[3] = 20 => data = L(SubSeq(d, 9, Len(d)))

C12_Witness ==
    /\ Len(extractArgs) = 1
    /\ extractArgs[1].data = <<7, 99, 20, 1, 2, 3, 4, 5, 170, 187>>
    /\ data = L(<<170, 187>>)

\* C14: for every frame whose byte at the service-code offset is not one of
\* the registered codes 0x62, 0x63, 0x29, extract yields no data: never a byte
\* sequence and never a fault.
C14_UnknownCodeNoData ==
    (Len(extractArgs) = 1 /\ HasServiceCode(extractArgs[1])
        /\ ServiceCode(extractArgs[1]) \notin {98, 99, 41})
    => /\ data = None
       /\ result # "fault"
       /\ pc \in {"format", "algorithm"}

C14_Witness ==
    /\ Len(extractArgs) = 1
    /\ HasServiceCode(extractArgs[1])
    /\ extractArgs[1].data[1] = 7
    /\ extractArgs[1].data[2] = 105
    /\ pc = "algorithm"
    /\ data = None

\* C13: when the response to a read-by-identifier request is accepted (code
\* 0x62 at the service-code offset), the action returns the hex rendering of
\* that frame's payload from offset 4 to the end, for a simple and for a
\* reassembled response alike; [0x62, 0x62, id_hi, id_lo, 0xAA, 0xBB] gives
\* the data [0xAA, 0xBB].
C13_ReadByIdentifierEndToEnd ==
    (op = "rbi" /\ Len(hist) >= 1 /\ hist[1].ok /\ pc \in {"finish", "done"})
    => /\ result # "fault"
       /\ ServiceCode(response) = 98
       /\ data = L(FromOffset(response.data, 4))
       /\ data_str # None
       /\ Len(data_str.list) = 2 * Len(data.list)
       /\ DecodePairs(data_str.list) = FromOffset(response.data, 4)

C13_Witness ==
    /\ op = "rbi"
    /\ pc = "done"
    /\ result = "ok"
    /\ response # None
    /\ response.data = <<98, 98, 241, 144, 170, 187>>
    /\ data = L(<<170, 187>>)
    /\ data_str = L(<<"a", "a", "b", "b">>)

\* C15: a frame received while the collector is not accumulating and whose
\* first byte is not 0x10 (a Consecutive-Frame marker before any First-Frame
\* included) ends collection at once: that exchange performed exactly one
\* receive, and that frame is the candidate handed to the verifier.
C15_SimpleFrameEndsCollection ==
    (pc \in {"gate", "passive"} /\ ~flag /\ Len(rxlog) >= 1
        /\ Len(rxlog[1].data) >= 1 /\ rxlog[1].data[1] # 16)
    => /\ Len(rxlog) = 1
       /\ polls = 1
       /\ msg = rxlog[1]
       /\ pc = "passive" => response \in {None, rxlog[1]}

C15_Witness ==
    /\ pc = "gate"
    /\ ~flag
    /\ Len(rxlog) = 1
    /\ rxlog[1].data = <<33, 187, 204>>
    /\ msg = rxlog[1]

IsFirstFrame(f) == Len(f.data) >= 1 /\ f.data[1] = 16

IsConsecutiveFrame(f) == Len(f.data) >= 1 /\ f.data[1] \in 33..47

\* position in the log of the latest First-Frame (the log holds one)
LastFirstFrame(log) ==
    CHOOSE i \in 1..Len(log) :
        /\ IsFirstFrame(log[i])
        /\ \A j \in (i + 1)..Len(log) : ~IsFirstFrame(log[j])

\* C16: for every segmented response collect(sid) returns, the First-Frame as
\* received from the transport carries sid + 0x40 at payload offset 2,
\* whatever the value of its length byte at offset 1.
C16_FirstFrameCarriesCode ==
    (pc = "passive" /\ flag /\ response # None)
    => LET ff == rxlog[LastFirstFrame(rxlog)]
       IN  /\ Len(ff.data) >= 3
           /\ ff.data[3] = (IF op = "rbi" THEN 34 ELSE 41) + 64

\* C17: while segmentation is active, every frame whose first byte lies
\* strictly between 0x20 and 0x30 is appended, without its marker byte, to the
\* running buffer and polling goes on, whatever its sequence number:
\* out-of-order, repeated or skipped numbers never cause rejection.
C17_ConsecutiveAppended ==
    [][ (pc = "loop" /\ flag /\ msg # None /\ IsConsecutiveFrame(msg))
        => /\ pc' = "loop"
           /\ result' = "none"
           /\ flag'
           /\ msg_ext'.id = msg_ext.id
           /\ msg_ext'.data = msg_ext.data \o SubSeq(msg.data, 2, Len(msg.data)) ]_vars

C17_Witness ==
    /\ pc = "gate"
    /\ flag
    /\ Len(rxlog) = 3
    /\ rxlog[1].data = <<16, 9, 105, 1, 170>>
    /\ rxlog[2].data = <<34, 221>>
    /\ rxlog[3].data = <<33, 187, 204>>
    /\ msg_ext.data = <<9, 105, 1, 170, 221, 187, 204>>

\* the frame (or the None) just received makes the poll loop stop
Terminating ==
    \/ msg = None
    \/ ~IsFirstFrame(msg) /\ ~(flag /\ IsConsecutiveFrame(msg))

\* C18: the poll loop stops as soon as a poll times out or a frame arrives
\* that is neither a First-Frame nor, in segmented mode, a Consecutive-Frame;
\* no poll follows the terminating one, and with a transport that eventually
\* does one of these every collect eventually returns.
C18_CollectTerminates ==
    /\ [][ (pc = "loop" /\ Terminating)
           => (pc' \in {"gate", "done"} /\ rxlog' = rxlog /\ polls' = polls
               /\ msg' = msg) ]_vars
    /\ [][ pc = "gate" => (rxlog' = rxlog /\ polls' = polls) ]_vars
    /\ (pc = "collect") ~> (pc \in {"passive", "done"})

C18_Witness ==
    /\ pc = "passive"
    /\ step = 2
    /\ flag
    /\ Len(rxlog) = 3
    /\ IsConsecutiveFrame(rxlog[2])
    /\ ~IsFirstFrame(rxlog[3]) /\ ~IsConsecutiveFrame(rxlog[3])

NumFirstFrames(log) == Cardinality({ i \in 1..Len(log) : IsFirstFrame(log[i]) })

\* the frames of the log that went into the buffer: from the latest
\* First-Frame to the last frame that was not the one ending the loop
Accumulated(log, last) ==
    SubSeq(log, LastFirstFrame(log), IF last = None THEN Len(log) ELSE Len(log) - 1)

\* C19: a First-Frame that arrives while accumulation is active restarts the
\* buffer: the bytes of the earlier First-Frame and its Consecutive-Frames are
\* discarded, and the payload holds only the latest First-Frame's bytes and
\* those of the Consecutive-Frames after it.
C19_FirstFrameRestarts ==
    (pc = "gate" /\ flag /\ NumFirstFrames(rxlog) >= 2)
    => /\ msg_ext.id = rxlog[LastFirstFrame(rxlog)].id
       /\ msg_ext.data = PostMarkerBytes(Accumulated(rxlog, msg))

C19_Witness ==
    /\ pc = "gate"
    /\ flag
    /\ Len(rxlog) = 3
    /\ rxlog[1].data = <<16, 9, 105, 1, 170>>
    /\ rxlog[2].data = <<33, 187, 204>>
    /\ rxlog[3].data = <<16, 9, 98, 241, 144>>
    /\ msg_ext.data = <<9, 98, 241, 144>>

\* C20: in segmented mode a frame that is neither a First-Frame nor a
\* Consecutive-Frame ends accumulation and is itself taken off the transport
\* and dropped: the candidate handed to the verifier is the accumulated
\* buffer, never that frame, which no later collect of the session can get.
C20_TerminatingFrameDiscarded ==
    /\ (pc = "gate" /\ flag /\ msg # None)
       => /\ msg = rxlog[Len(rxlog)]
          /\ polls = Len(rxlog)
          /\ Candidate = msg_ext
          /\ msg_ext.data = PostMarkerBytes(SubSeq(rxlog, LastFirstFrame(rxlog),
                                                   Len(rxlog) - 1))
    /\ (pc = "passive" /\ flag)
       => /\ msg = msg_ext
          /\ response \in {None, msg_ext}
          /\ hist[Len(hist)].got = Len(rxlog)

C20_Witness ==
    /\ pc = "passive"
    /\ op = "auth"
    /\ step = 1
    /\ flag
    /\ Len(rxlog) = 2
    /\ rxlog[1].data = <<16, 9, 105, 1, 170>>
    /\ rxlog[2].data = <<6, 105, 1, 170, 187>>
    /\ response # None
    /\ response.data = <<9, 105, 1, 170>>

====
